---- MODULE Spec2Model ----
(***************************************************************************)
(* A model of the typed HTTP client of src/src/index.ts: the three         *)
(* parameter serializers, the four verb methods, and the request pipeline  *)
(* (middlewares, transport, afterwares, response decoding).                *)
(*                                                                         *)
(* JavaScript strings that the code searches or slices (paths, queries,    *)
(* URLs) are sequences of one-character strings. JSON texts and MIME types *)
(* are TLA+ strings. JavaScript values are records tagged by a field t.    *)
(***************************************************************************)
EXTENDS Integers, Sequences, FiniteSets, TLC

\* ------------------------------------------------------------------------
\* Bounds of the model
\* ------------------------------------------------------------------------
\* longest path/query value string that is enumerated
MaxValLen == 2
\* longest middleware list and longest afterware list of a configuration
MaxHooks == 2

\* ------------------------------------------------------------------------
\* JavaScript values
\* ------------------------------------------------------------------------
Undefined == [t |-> "undef"]
Null == [t |-> "null"]
\* a string value, s its characters
Str(s) == [t |-> "str", s |-> s]
\* a number, s its decimal digits
Num(s) == [t |-> "num", s |-> s]
\* a Symbol: every string coercion of it throws a TypeError
Sym == [t |-> "sym", s |-> <<>>]
\* an object in entry (iteration) order: a sequence of <<key, value>> pairs
Map(entries) == [t |-> "map", entries |-> entries]

\* all sequences over S of length at most n
SeqsUpTo(S, n) == UNION {[1..m -> S] : m \in 0..n}

\* ToString(v) throws for a Symbol and yields the characters otherwise
ToStringThrows(v) == v.t = "sym"
JsToString(v) == v.s

\* Object.entries(x || {}): the entries of a map, none for undefined / null
EntriesOrEmpty(x) == IF x.t = "map" THEN x.entries ELSE <<>>

\* ------------------------------------------------------------------------
\* String.prototype.replace(searchString, replaceValue) with a string pattern
\* ------------------------------------------------------------------------
\* 1-based index of the first occurrence of pat in s, 0 when there is none
IndexOf(s, pat) ==
  LET hits == {i \in 1..(Len(s) + 1 - Len(pat)) : SubSeq(s, i, i + Len(pat) - 1) = pat}
  IN IF Len(pat) > Len(s) \/ hits = {} THEN 0
     ELSE CHOOSE i \in hits : \A j \in hits : i <= j

\* the characters backtick and apostrophe
Backtick == "<backtick>"
Apostrophe == "<apostrophe>"

\* GetSubstitution: the replacement text, with the patterns $$, $&, $-backtick
\* and $-apostrophe expanded; a string pattern has no captures, so every
\* other $ stands for itself
RECURSIVE GetSubstitution(_, _, _, _, _)
GetSubstitution(repl, j, matched, before, after) ==
  IF j > Len(repl) THEN <<>>
  ELSE IF repl[j] = "$" /\ j < Len(repl) /\ repl[j + 1] \in {"$", "&", Backtick, Apostrophe}
       THEN (CASE repl[j + 1] = "$" -> <<"$">>
               [] repl[j + 1] = "&" -> matched
               [] repl[j + 1] = Backtick -> before
               [] repl[j + 1] = Apostrophe -> after)
            \o GetSubstitution(repl, j + 2, matched, before, after)
       ELSE <<repl[j]>> \o GetSubstitution(repl, j + 1, matched, before, after)

StringReplace(s, pat, repl) ==
  LET i == IndexOf(s, pat)
      before == SubSeq(s, 1, i - 1)
      after == SubSeq(s, i + Len(pat), Len(s))
  IN IF i = 0 THEN s
     ELSE before \o GetSubstitution(repl, 1, pat, before, after) \o after

\* ------------------------------------------------------------------------
\* #serializePathParams
\* ------------------------------------------------------------------------
\* the literal placeholder token: the key between braces
Token(key) == <<"{">> \o key \o <<"}">>

\* the reduce of line 255-257 over the first n entries
RECURSIVE PathReduce(_, _, _)
PathReduce(path, entries, n) ==
  IF n = 0 THEN path
  ELSE StringReplace(PathReduce(path, entries, n - 1),
                     Token(entries[n][1]), JsToString(entries[n][2]))

serializePathParams(path, params) ==
  LET entries == EntriesOrEmpty(params)
  IN IF \E n \in 1..Len(entries) : ToStringThrows(entries[n][2])
     THEN path
     ELSE PathReduce(path, entries, Len(entries))

\* ------------------------------------------------------------------------
\* #serializeQueryParams
\* ------------------------------------------------------------------------
\* the reduce of line 266-268 over the first n entries, seeded with "?"
RECURSIVE QueryReduce(_, _)
QueryReduce(entries, n) ==
  IF n = 0 THEN <<"?">>
  ELSE QueryReduce(entries, n - 1) \o entries[n][1] \o <<"=">>
       \o JsToString(entries[n][2]) \o <<"&">>

\* a variant that leaves the last character where it is
SliceKeepAll(s) == s

\* String.prototype.slice(0, -1)
SliceDropLast(s) == IF Len(s) = 0 THEN s ELSE SubSeq(s, 1, Len(s) - 1)

serializeQueryParams(query) ==
  LET entries == EntriesOrEmpty(query)
  IN IF \E n \in 1..Len(entries) : ToStringThrows(entries[n][2])
     THEN <<>>
     ELSE SliceDropLast(QueryReduce(entries, Len(entries)))

\* ------------------------------------------------------------------------
\* #serializeRequestBody
\* ------------------------------------------------------------------------
\* request-body payloads
PObj(json) == [t |-> "obj", json |-> json]
PNum(n) == [t |-> "num", n |-> n]
PBool(b) == [t |-> "bool", b |-> b]
PStr(text) == [t |-> "pstr", text |-> text]
\* an object that contains itself: JSON.stringify throws on it
PCyclic == [t |-> "cyclic"]

\* JavaScript truthiness of a payload
Truthy(p) ==
  CASE p.t = "undef" -> FALSE
    [] p.t = "null" -> FALSE
    [] p.t = "num" -> p.n # 0
    [] p.t = "bool" -> p.b
    [] p.t = "pstr" -> p.text # ""
    [] OTHER -> TRUE

JSONStringifyThrows(p) == p.t = "cyclic"

\* JSON.stringify of a payload that does not make it throw
JSONStringify(p) ==
  CASE p.t = "null" -> "null"
    [] p.t = "num" -> (IF p.n = 0 THEN "0" ELSE "1")
    [] p.t = "bool" -> (IF p.b THEN "true" ELSE "false")
    [] p.t = "pstr" -> "\"" \o p.text \o "\""
    [] p.t = "obj" -> "{" \o p.json \o "}"
    [] OTHER -> "undefined"

EmptyObject == PObj("")

\* Object.keys(content || {})?.[0]: the first key, "" standing for none
FirstKey(content) ==
  IF content.t = "map" /\ Len(content.entries) > 0 THEN content.entries[1][1] ELSE ""

\* content[key] on a map: the value of the entry with that key, or undefined
Lookup(content, key) ==
  LET hits == {n \in 1..Len(content.entries) : content.entries[n][1] = key}
  IN IF hits = {} THEN Undefined ELSE content.entries[CHOOSE n \in hits : TRUE][2]

\* the catch branch of line 284-289
DefaultBody == [contentType |-> "application/json", requestBody |-> JSONStringify(EmptyObject)]

serializeRequestBody(content) ==
  LET contentType == IF FirstKey(content) = "" THEN "application/json" ELSE FirstKey(content)
  IN IF content.t # "map" THEN DefaultBody
     ELSE LET selected == Lookup(content, contentType)
              payload == IF Truthy(selected) THEN selected ELSE EmptyObject
          IN IF JSONStringifyThrows(payload) THEN DefaultBody
             ELSE [contentType |-> contentType, requestBody |-> JSONStringify(payload)]

\* ------------------------------------------------------------------------
\* Request descriptors (RequestInit objects) and headers
\* ------------------------------------------------------------------------
\* an unset (undefined) method or body field
Absent == "<absent>"

\* a headers object: a function from the header names it has to their values;
\* an undefined headers field spreads like the empty object
NoHeaders == [h \in {} |-> ""]

\* { ...base, ...over }: the properties of over layered after those of base
Spread(base, over) ==
  [h \in (DOMAIN base) \cup (DOMAIN over) |-> IF h \in DOMAIN over THEN over[h] ELSE base[h]]

\* the empty object literal
EmptyInit == [method |-> Absent, headers |-> NoHeaders, body |-> Absent]

\* headers[name] = value
SetHeader(d, name, value) ==
  [d EXCEPT !.headers = Spread(@, [h \in {name} |-> value])]

\* ------------------------------------------------------------------------
\* Hooks: a hook is named by what its function does to the descriptor it is
\* handed; none of them keeps state of its own
\* ------------------------------------------------------------------------
MwKinds == {"noop", "tag", "body"}
AwKinds == {"noop", "write"}

\* the value a header has, "" when it is not there
HeaderOr(d, name) == IF name \in DOMAIN d.headers THEN d.headers[name] ELSE ""

\* what a middleware does to the descriptor: "tag" appends a hop mark to the
\* X-Trace header, "body" replaces the body
MwEffect(kind, d) ==
  CASE kind = "tag" -> SetHeader(d, "X-Trace", HeaderOr(d, "X-Trace") \o "t")
    [] kind = "body" -> [d EXCEPT !.body = "mw"]
    [] OTHER -> d

\* what an afterware does to the descriptor: "write" sets a header on it
AwEffect(kind, d) ==
  CASE kind = "write" -> SetHeader(d, "X-Seen", "a")
    [] OTHER -> d

\* values a hook may return or resolve to
HookReturns == {"undefined", "false"}

\* ------------------------------------------------------------------------
\* Inputs of the verb methods
\* ------------------------------------------------------------------------
\* the options bag { content, path, query }
Options(content, path, query) ==
  [t |-> "obj", content |-> content, path |-> path, query |-> query]

UrlTemplate == <<"/", "u", "/", "{", "a", "}">>

\* a valid options bag
ValidOptions ==
  Options(Map(<< <<"text/plain", PStr("hi")>> >>),
          Map(<< <<(<<"a">>), Str(<<"7">>)>> >>),
          Map(<< <<(<<"q">>), Num(<<"1">>)>> >>))

\* the options bag {}
EmptyOptions == Options(Undefined, Undefined, Undefined)

\* options bags with malformed members: a payload JSON.stringify throws on
\* and values no string coercion accepts; null members
MalformedOptions ==
  { Options(Map(<< <<"text/plain", PCyclic>> >>),
            Map(<< <<(<<"a">>), Sym>> >>),
            Map(<< <<(<<"q">>), Sym>> >>)),
    Options(Null, Null, Null) }

\* headers a caller writes into a request-overrides object
CallerHeaders ==
  { NoHeaders,
    [h \in {"X-Api"} |-> "k"],
    [h \in {"Content-Type"} |-> "text/csv"] }

\* responses the transport resolves to: body presence and the body's text
Responses ==
  { [body |-> FALSE, text |-> ""],
    [body |-> TRUE, text |-> "{\"ok\":1}"],
    [body |-> TRUE, text |-> "<html>"] }

\* ------------------------------------------------------------------------
\* State
\* ------------------------------------------------------------------------
VARIABLES
  baseUrl,      \* this.baseUrl
  middlewares,  \* this.middlewares: a sequence of middleware kinds
  afterwares,   \* this.afterwares: a sequence of afterware kinds
  heap,         \* the RequestInit objects, by object id
  given,        \* per object: who created it and the headers it was created with
  calls,        \* per call id: the activation of the verb method and #request
  running,      \* the call whose synchronous code holds the thread, 0 when none
  ser,          \* a serializer applied on its own: its arguments and its result
  config        \* the configuration as it was when the constructor was given it

vars == <<baseUrl, middlewares, afterwares, heap, given, calls, running, ser, config>>
client == <<baseUrl, middlewares, afterwares, heap, given, calls, running, config>>

\* no serializer is being applied on its own
NoJob == [op |-> "none"]

\* the calls a caller makes on the client, in the order it makes them
CallIds == {1, 2}

NoResponse == [body |-> FALSE, text |-> "<none>"]
NoResult == [t |-> "pending"]
\* what the transport was handed, before the transport is invoked
NoSent == [url |-> <<>>, method |-> "<unsent>", headers |-> NoHeaders, body |-> Absent]

\* a call that has not been made
IdleCall ==
  [ pc |-> "idle", verb |-> "", options |-> Undefined, requestInit |-> 0,
    path |-> <<>>, requestInfo |-> <<>>, init |-> 0, i |-> 0,
    requestResponse |-> NoResponse, result |-> NoResult,
    log |-> <<>>, sent |-> NoSent, seen |-> <<>>, before |-> EmptyInit, built |-> EmptyInit,
    priors |-> {}, handed |-> <<>> ]

Settled(c) == calls[c].pc \in {"resolved", "rejected"}
InFlight(c) == calls[c].pc \notin {"idle", "resolved", "rejected"}

Event(who, idx, kind, ev) == [who |-> who, idx |-> idx, kind |-> kind, ev |-> ev]

\* what the caller and the world around a client may do: the options bags
\* and override headers a caller passes, the responses the transport gives,
\* and whether hooks and transport may fail
Env(options, headers, responses, faults) ==
  [options |-> options, headers |-> headers, responses |-> responses, faults |-> faults]

\* constructor (line 95-99), for a client configured with at most maxHooks
\* hooks of the given kinds in each list
Construct(mwKinds, awKinds, maxHooks) ==
  /\ baseUrl = <<"h">>
  /\ middlewares \in SeqsUpTo(mwKinds, maxHooks)
  /\ afterwares \in SeqsUpTo(awKinds, maxHooks)
  /\ heap = <<>>
  /\ given = <<>>
  /\ calls = [c \in CallIds |-> IdleCall]
  /\ running = 0
  /\ config = [baseUrl |-> baseUrl, middlewares |-> middlewares, afterwares |-> afterwares]

\* ------------------------------------------------------------------------
\* The verb methods get / post / put / delete
\* ------------------------------------------------------------------------
\* the request-overrides argument: none, an object the caller makes for this
\* call, or an object the caller made for an earlier call
Overrides(env) ==
  {[k |-> "none"]}
  \cup {[k |-> "new", headers |-> h] : h \in env.headers}
  \cup {[k |-> "old", id |-> o] : o \in {o \in 1..Len(heap) : given[o].byCaller}}

Error(e) == [t |-> "error", e |-> e]

\* the body of a verb method up to its call of #request. attachBody is FALSE
\* for get, which has no assignment to init.body
Verb(c, verb, method, attachBody, urlPath, options, ov) ==
  LET heap1 == IF ov.k = "new"
               THEN Append(heap, [EmptyInit EXCEPT !.headers = ov.headers])
               ELSE heap
      given1 == IF ov.k = "new"
                THEN Append(given, [byCaller |-> TRUE, headers |-> ov.headers])
                ELSE given
      \* the requestInit argument, 0 when it is undefined
      requestInit == CASE ov.k = "new" -> Len(heap) + 1
                       [] ov.k = "old" -> ov.id
                       [] OTHER -> 0
  IN
  /\ running = 0
  /\ calls[c].pc = "idle"
  /\ \A d \in CallIds : d < c => calls[d].pc # "idle"
  /\ IF options.t # "obj"
     THEN \* line 148: destructuring undefined throws a TypeError
          /\ heap' = heap1
          /\ given' = given1
          /\ calls' = [calls EXCEPT ![c] =
                 [@ EXCEPT !.pc = "rejected", !.verb = verb, !.options = options,
                           !.requestInit = requestInit,
                           !.before = IF requestInit = 0 THEN EmptyInit ELSE heap1[requestInit],
                           !.priors = {d \in CallIds : Settled(d)},
                           !.result = Error(<<"TypeError", 0>>)]]
          /\ running' = 0
     ELSE LET serialized == serializeRequestBody(options.content)
              seralizedPath == serializePathParams(urlPath, options.path)
              serializedQuery == serializeQueryParams(options.query)
              \* const init = requestInit ?? {}
              init == IF requestInit = 0 THEN Len(heap1) + 1 ELSE requestInit
              heap2 == IF requestInit = 0 THEN Append(heap1, EmptyInit) ELSE heap1
              given2 == IF requestInit = 0
                        THEN Append(given1, [byCaller |-> FALSE, headers |-> NoHeaders])
                        ELSE given1
              old == heap2[init]
              new == [ method |-> method,
                       headers |-> Spread([h \in {"Content-Type"} |-> serialized.contentType],
                                          old.headers),
                       body |-> IF attachBody THEN serialized.requestBody ELSE old.body ]
          IN /\ heap' = [heap2 EXCEPT ![init] = new]
             /\ given' = given2
             /\ calls' = [calls EXCEPT ![c] =
                    [@ EXCEPT !.pc = "request", !.verb = verb, !.options = options,
                              !.requestInit = requestInit,
                              !.path = seralizedPath \o serializedQuery,
                              !.init = init, !.before = old, !.built = new,
                              !.priors = {d \in CallIds : Settled(d)}]]
             /\ running' = c
  /\ UNCHANGED <<config, ser, baseUrl, middlewares, afterwares>>

Get(c, env) ==
  \E options \in env.options, ov \in Overrides(env) :
    Verb(c, "get", "GET", FALSE, UrlTemplate, options, ov)

Post(c, env) ==
  \E options \in env.options, ov \in Overrides(env) :
    Verb(c, "post", "POST", TRUE, UrlTemplate, options, ov)

Put(c, env) ==
  \E options \in env.options, ov \in Overrides(env) :
    Verb(c, "put", "PUT", TRUE, UrlTemplate, options, ov)

Delete(c, env) ==
  \E options \in env.options, ov \in Overrides(env) :
    Verb(c, "delete", "DELETE", TRUE, UrlTemplate, options, ov)

\* ------------------------------------------------------------------------
\* #request and #response, one action per stretch of synchronous code
\* ------------------------------------------------------------------------
UpdateCall(c, r) == calls' = [calls EXCEPT ![c] = r]

\* a variant that catches the rejection: the event is logged and the call
\* is left as it was
RejectsSwallowed(call, who, idx, kind) ==
  [call EXCEPT !.log = Append(@, Event(who, idx, kind, "raise"))]

\* an awaited step of #request rejected: the rejection leaves the async
\* function, whose promise rejects with the same error
Rejects(call, who, idx, kind) ==
  [call EXCEPT !.pc = "rejected",
               !.result = Error(<<who, idx>>),
               !.log = Append(@, Event(who, idx, kind, "raise"))]

\* a variant in which a hook that resolves to false ends its chain
NextHookShortCircuit(hooks, i, ret) == IF ret = "false" THEN Len(hooks) + 1 ELSE i + 1

\* the index of the hook a for-of loop takes after the hook at index i
\* resolved to ret: the value is dropped and the iteration goes on
NextHook(hooks, i, ret) == i + 1

\* a variant that joins baseUrl and path with a slash
RequestJoinsWithSlash(c) ==
  /\ running = c
  /\ calls[c].pc = "request"
  /\ UpdateCall(c, [calls[c] EXCEPT !.requestInfo = baseUrl \o <<"/">> \o calls[c].path,
                                    !.pc = "mw", !.i = 1])
  /\ UNCHANGED <<config, ser, baseUrl, middlewares, afterwares, heap, given, running>>

\* line 106-107
Request(c) ==
  /\ running = c
  /\ calls[c].pc = "request"
  /\ UpdateCall(c, [calls[c] EXCEPT !.requestInfo = baseUrl \o calls[c].path,
                                    !.pc = "mw", !.i = 1])
  /\ UNCHANGED <<config, ser, baseUrl, middlewares, afterwares, heap, given, running>>

\* line 109-110: the loop takes the next middleware and calls it; the call
\* runs the middleware's code on the descriptor, then #request awaits
CallMiddleware(c) ==
  /\ running = c
  /\ calls[c].pc = "mw"
  /\ calls[c].i <= Len(middlewares)
  /\ LET kind == middlewares[calls[c].i]
     IN /\ heap' = [heap EXCEPT ![calls[c].init] = MwEffect(kind, @)]
        /\ UpdateCall(c, [calls[c] EXCEPT
               !.pc = "mw_await",
               !.handed = Append(@, [url |-> calls[c].requestInfo, ref |-> calls[c].init,
                                     d |-> heap[calls[c].init]]),
               !.log = Append(@, Event("middleware", calls[c].i, kind, "start"))])
  /\ running' = 0
  /\ UNCHANGED <<config, ser, baseUrl, middlewares, afterwares, given>>

\* the awaited middleware settles: whatever it resolves to the loop goes on,
\* and a rejection leaves #request
MiddlewareSettles(c, env) ==
  /\ running = 0
  /\ calls[c].pc = "mw_await"
  /\ LET kind == middlewares[calls[c].i]
     IN \/ \E ret \in HookReturns :
             /\ UpdateCall(c, [calls[c] EXCEPT
                    !.pc = "mw", !.i = NextHook(middlewares, @, ret),
                    !.log = Append(@, Event("middleware", calls[c].i, kind, "end"))])
             /\ running' = c
        \/ /\ env.faults
           /\ UpdateCall(c, Rejects(calls[c], "middleware", calls[c].i, kind))
           /\ running' = 0
  /\ UNCHANGED <<config, ser, baseUrl, middlewares, afterwares, heap, given>>

\* line 113: the loop is over; the transport is called with the URL and the
\* descriptor as it is now, then #request awaits
CallFetcher(c) ==
  /\ running = c
  /\ calls[c].pc = "mw"
  /\ calls[c].i > Len(middlewares)
  /\ LET d == heap[calls[c].init]
     IN UpdateCall(c, [calls[c] EXCEPT
            !.pc = "fetch_await",
            !.sent = [url |-> calls[c].requestInfo, method |-> d.method,
                      headers |-> d.headers, body |-> d.body],
            !.log = Append(@, Event("transport", 0, "fetch", "start"))])
  /\ running' = 0
  /\ UNCHANGED <<config, ser, baseUrl, middlewares, afterwares, heap, given>>

\* a variant that calls the transport again when it rejected
FetcherSettlesRetry(c, env) ==
  /\ running = 0
  /\ calls[c].pc = "fetch_await"
  /\ \/ \E r \in env.responses :
          /\ UpdateCall(c, [calls[c] EXCEPT
                 !.pc = "aw", !.i = 1, !.requestResponse = r,
                 !.log = Append(@, Event("transport", 0, "fetch", "end"))])
          /\ running' = c
     \/ /\ env.faults
        /\ UpdateCall(c, [calls[c] EXCEPT
               !.pc = "mw",
               !.log = Append(@, Event("transport", 0, "fetch", "raise"))])
        /\ running' = c
  /\ UNCHANGED <<config, ser, baseUrl, middlewares, afterwares, heap, given>>

\* the transport resolves to a response, or rejects
FetcherSettles(c, env) ==
  /\ running = 0
  /\ calls[c].pc = "fetch_await"
  /\ \/ \E r \in env.responses :
          /\ UpdateCall(c, [calls[c] EXCEPT
                 !.pc = "aw", !.i = 1, !.requestResponse = r,
                 !.log = Append(@, Event("transport", 0, "fetch", "end"))])
          /\ running' = c
     \/ /\ env.faults
        /\ UpdateCall(c, Rejects(calls[c], "transport", 0, "fetch"))
        /\ running' = 0
  /\ UNCHANGED <<config, ser, baseUrl, middlewares, afterwares, heap, given>>

\* line 115-116: the loop takes the next afterware and calls it with the
\* descriptor and the response
CallAfterware(c) ==
  /\ running = c
  /\ calls[c].pc = "aw"
  /\ calls[c].i <= Len(afterwares)
  /\ LET kind == afterwares[calls[c].i]
         d == heap[calls[c].init]
     IN /\ heap' = [heap EXCEPT ![calls[c].init] = AwEffect(kind, @)]
        /\ UpdateCall(c, [calls[c] EXCEPT
               !.pc = "aw_await",
               !.seen = Append(@, d),
               !.log = Append(@, Event("afterware", calls[c].i, kind, "start"))])
  /\ running' = 0
  /\ UNCHANGED <<config, ser, baseUrl, middlewares, afterwares, given>>

AfterwareSettles(c, env) ==
  /\ running = 0
  /\ calls[c].pc = "aw_await"
  /\ LET kind == afterwares[calls[c].i]
     IN \/ \E ret \in HookReturns :
             /\ UpdateCall(c, [calls[c] EXCEPT
                    !.pc = "aw", !.i = NextHook(afterwares, @, ret),
                    !.log = Append(@, Event("afterware", calls[c].i, kind, "end"))])
             /\ running' = c
        \/ /\ env.faults
           /\ UpdateCall(c, Rejects(calls[c], "afterware", calls[c].i, kind))
           /\ running' = 0
  /\ UNCHANGED <<config, ser, baseUrl, middlewares, afterwares, heap, given>>

\* line 119 and 131: #response is called; it starts decoding the body when
\* the response has one, and #request awaits
CallResponse(c) ==
  /\ running = c
  /\ calls[c].pc = "aw"
  /\ calls[c].i > Len(afterwares)
  /\ UpdateCall(c, [calls[c] EXCEPT
         !.pc = "response_await",
         !.log = Append(@, Event("decode", 0, "json", "start"))])
  /\ running' = 0
  /\ UNCHANGED <<config, ser, baseUrl, middlewares, afterwares, heap, given>>

\* a variant that takes every text for JSON
ParsesAnyText(text) == TRUE

\* JSON.parse of the texts a response body may hold
ParsesAsJson(text) == text = "{\"ok\":1}"
\* a variant that gives the empty object whatever the text
JsonParseDropped(text) == [t |-> "json", of |-> "{}"]

\* the value JSON.parse gives for a text that parses, named by that text
JsonParse(text) == [t |-> "json", of |-> text]

\* a variant that hands out only the decoded body
EnvelopeDataOnly(json, response) == [data |-> json]

\* line 132-135: the object literal #response returns
Envelope(json, response) == [data |-> json, requestResponse |-> response]

\* the reference of the object an object literal creates: one that no
\* object a call resolved to before has
NewObject == 1 + Cardinality({d \in CallIds : calls[d].result.t = "value"})

\* the promise of an async function fulfilled with the object at reference
\* ref, v being the object's fields
Resolved(ref, v) == [t |-> "value", ref |-> ref, v |-> v]

\* a variant in which #response settles only when the response has a body
ResponseSettlesWithBodyOnly(c) ==
  /\ running = 0
  /\ calls[c].pc = "response_await"
  /\ calls[c].requestResponse.body
  /\ LET r == calls[c].requestResponse
     IN IF ~ParsesAsJson(r.text)
        THEN UpdateCall(c, Rejects(calls[c], "decode", 0, "json"))
        ELSE UpdateCall(c, [calls[c] EXCEPT
                 !.pc = "resolved",
                 !.result = Resolved(NewObject, Envelope(JsonParse(r.text), r)),
                 !.log = Append(@, Event("decode", 0, "json", "end"))])
  /\ UNCHANGED <<config, ser, baseUrl, middlewares, afterwares, heap, given, running>>

\* line 131-135 and 123: the body is decoded, or is the empty object, and the
\* call resolves to the envelope; a body that is no JSON rejects the call
ResponseSettles(c) ==
  /\ running = 0
  /\ calls[c].pc = "response_await"
  /\ LET r == calls[c].requestResponse
     IN IF r.body /\ ~ParsesAsJson(r.text)
        THEN UpdateCall(c, Rejects(calls[c], "decode", 0, "json"))
        ELSE UpdateCall(c, [calls[c] EXCEPT
                 !.pc = "resolved",
                 !.result = Resolved(NewObject,
                                     Envelope(IF r.body THEN JsonParse(r.text)
                                              ELSE [t |-> "json", of |-> "{}"], r)),
                 !.log = Append(@, Event("decode", 0, "json", "end"))])
  /\ UNCHANGED <<config, ser, baseUrl, middlewares, afterwares, heap, given, running>>

\* ------------------------------------------------------------------------
\* Specifications
\* ------------------------------------------------------------------------
\* Spec: one call on a client of any configuration, with any input and any
\* outcome of the hooks and of the transport
AnyEnv == Env({Undefined, EmptyOptions, ValidOptions} \cup MalformedOptions,
              CallerHeaders, Responses, TRUE)

Init == Construct(MwKinds, AwKinds, MaxHooks) /\ ser = NoJob

Next ==
  \E c \in {1} :
    \/ Get(c, AnyEnv)
    \/ Post(c, AnyEnv)
    \/ Put(c, AnyEnv)
    \/ Delete(c, AnyEnv)
    \/ Request(c)
    \/ CallMiddleware(c)
    \/ MiddlewareSettles(c, AnyEnv)
    \/ CallFetcher(c)
    \/ FetcherSettles(c, AnyEnv)
    \/ CallAfterware(c)
    \/ AfterwareSettles(c, AnyEnv)
    \/ CallResponse(c)
    \/ ResponseSettles(c)

Spec == Init /\ [][Next]_vars

\* PairSpec: two calls on one client, made one after the other or while the
\* first is still in flight, by a caller that passes well-formed options and
\* may pass the same request-overrides object twice; no hook and no
\* transport call fails
PairEnv == Env({EmptyOptions, ValidOptions}, {[h \in {"X-Api"} |-> "k"]},
               {[body |-> FALSE, text |-> ""]}, FALSE)

PairInit == Construct({"noop", "tag"}, {"noop"}, 1) /\ ser = NoJob

PairNext ==
  \E c \in CallIds :
    \/ Get(c, PairEnv)
    \/ Post(c, PairEnv)
    \/ Put(c, PairEnv)
    \/ Delete(c, PairEnv)
    \/ Request(c)
    \/ CallMiddleware(c)
    \/ MiddlewareSettles(c, PairEnv)
    \/ CallFetcher(c)
    \/ FetcherSettles(c, PairEnv)
    \/ CallAfterware(c)
    \/ AfterwareSettles(c, PairEnv)
    \/ CallResponse(c)
    \/ ResponseSettles(c)

PairSpec == PairInit /\ [][PairNext]_vars

\* line 97-98: the constructor keeps the arrays of the configuration
\* themselves, so a push on one of them by the code that made it, or by a
\* hook that was given it, while no synchronous code of a call runs, is a
\* push on the list the client iterates
PushMiddleware(kinds, maxHooks) ==
  /\ running = 0
  /\ Len(middlewares) < maxHooks
  /\ \E kind \in kinds : middlewares' = Append(middlewares, kind)
  /\ UNCHANGED <<config, ser, baseUrl, afterwares, heap, given, calls, running>>

PushAfterware(kinds, maxHooks) ==
  /\ running = 0
  /\ Len(afterwares) < maxHooks
  /\ \E kind \in kinds : afterwares' = Append(afterwares, kind)
  /\ UNCHANGED <<config, ser, baseUrl, middlewares, heap, given, calls, running>>

\* ConfigSpec: one call on a client whose configuration lists are arrays
\* the caller keeps and may push to at any time, before or during the call
ConfigEnv == Env({EmptyOptions, ValidOptions}, {NoHeaders}, Responses, TRUE)

ConfigInit == Construct({"noop", "tag"}, {"noop", "write"}, 1) /\ ser = NoJob

ConfigNext ==
  \/ PushMiddleware({"noop", "tag"}, MaxHooks)
  \/ PushAfterware({"noop", "write"}, MaxHooks)
  \/ \E c \in {1} :
       \/ Get(c, ConfigEnv)
       \/ Post(c, ConfigEnv)
       \/ Put(c, ConfigEnv)
       \/ Delete(c, ConfigEnv)
       \/ Request(c)
       \/ CallMiddleware(c)
       \/ MiddlewareSettles(c, ConfigEnv)
       \/ CallFetcher(c)
       \/ FetcherSettles(c, ConfigEnv)
       \/ CallAfterware(c)
       \/ AfterwareSettles(c, ConfigEnv)
       \/ CallResponse(c)
       \/ ResponseSettles(c)

ConfigSpec == ConfigInit /\ [][ConfigNext]_vars

\* LiveSpec: one call on a client of any configuration, in which whatever
\* is awaited settles in the end. The event loop runs the continuation of
\* an await once the awaited promise has settled (weak fairness of the
\* synchronous steps); that every middleware, the transport, every
\* afterware and the decoding do settle is what is assumed of them (weak
\* fairness of the settle steps). Nothing obliges a caller to make a call.
LiveEnv == Env({EmptyOptions, ValidOptions}, {NoHeaders}, Responses, TRUE)

LiveNext ==
  \E c \in {1} :
    \/ Get(c, LiveEnv)
    \/ Post(c, LiveEnv)
    \/ Put(c, LiveEnv)
    \/ Delete(c, LiveEnv)
    \/ Request(c)
    \/ CallMiddleware(c)
    \/ MiddlewareSettles(c, LiveEnv)
    \/ CallFetcher(c)
    \/ FetcherSettles(c, LiveEnv)
    \/ CallAfterware(c)
    \/ AfterwareSettles(c, LiveEnv)
    \/ CallResponse(c)
    \/ ResponseSettles(c)

EventLoopRuns ==
  \A c \in {1} :
    /\ WF_vars(Request(c))
    /\ WF_vars(CallMiddleware(c))
    /\ WF_vars(CallFetcher(c))
    /\ WF_vars(CallAfterware(c))
    /\ WF_vars(CallResponse(c))

AwaitedSettle ==
  \A c \in {1} :
    /\ WF_vars(MiddlewareSettles(c, LiveEnv))
    /\ WF_vars(FetcherSettles(c, LiveEnv))
    /\ WF_vars(AfterwareSettles(c, LiveEnv))
    /\ WF_vars(ResponseSettles(c))

LiveSpec == Init /\ [][LiveNext]_vars /\ EventLoopRuns /\ AwaitedSettle

\* SerSpec: each serializer applied on its own to every argument out of
\* bounded sets
ValChars == {"7", "$", "&", Backtick, Apostrophe}

\* values of a path or query map: strings, a number, a Symbol
StrValues == {Str(s) : s \in SeqsUpTo(ValChars, MaxValLen)} \cup {Str(<<"{", "b", "}">>)}
ParamValues == StrValues \cup {Num(<<"7">>), Sym}

\* the objects with at most two of the given keys, in either entry order,
\* and the absent ones
MapsOver(keys, values) ==
  {Undefined, Null, Map(<<>>)}
  \cup {Map(<< <<k, v>> >>) : k \in keys, v \in values}
  \cup {Map(<< <<e[1], e[2]>>, <<e[3], e[4]>> >>) :
          e \in {e \in keys \X values \X keys \X values : e[1] # e[3]}}

PathTemplates ==
  { <<"/", "{", "a", "}">>,
    <<"/", "{", "a", "}", "/", "{", "b", "}">>,
    <<"/", "{", "a", "}", "/", "{", "a", "}">>,
    <<"/", "u">> }

Payloads ==
  { Undefined, Null, PNum(0), PNum(1), PBool(FALSE), PBool(TRUE), PStr(""), PStr("hi"),
    EmptyObject, PObj("\"x\":1"), PCyclic }

PathJobs ==
  {[op |-> "path", path |-> p, params |-> m, done |-> FALSE, out |-> <<>>] :
     p \in PathTemplates, m \in MapsOver({<<"a">>, <<"b">>}, ParamValues)}

QueryJobs ==
  {[op |-> "query", query |-> m, done |-> FALSE, out |-> <<>>] :
     m \in MapsOver({<<"q">>, <<"r">>}, ParamValues)}

BodyJobs ==
  {[op |-> "body", content |-> m, done |-> FALSE, out |-> DefaultBody] :
     m \in MapsOver({"application/json", "text/plain"}, Payloads)}

SerInit ==
  /\ Construct({}, {}, 0)
  /\ ser \in PathJobs \cup QueryJobs \cup BodyJobs

SerializePathParams ==
  /\ ser.op = "path" /\ ~ser.done
  /\ ser' = [ser EXCEPT !.done = TRUE, !.out = serializePathParams(ser.path, ser.params)]
  /\ UNCHANGED client

SerializeQueryParams ==
  /\ ser.op = "query" /\ ~ser.done
  /\ ser' = [ser EXCEPT !.done = TRUE, !.out = serializeQueryParams(ser.query)]
  /\ UNCHANGED client

SerializeRequestBody ==
  /\ ser.op = "body" /\ ~ser.done
  /\ ser' = [ser EXCEPT !.done = TRUE, !.out = serializeRequestBody(ser.content)]
  /\ UNCHANGED client

SerNext == SerializePathParams \/ SerializeQueryParams \/ SerializeRequestBody

SerSpec == SerInit /\ [][SerNext]_vars

\* ------------------------------------------------------------------------
\* Properties
\* ------------------------------------------------------------------------
IsPrefix(a, b) == Len(a) <= Len(b) /\ SubSeq(b, 1, Len(a)) = a

\* start and end of hooks 1..n of a chain, in list order
RECURSIVE ChainEvents(_, _, _)
ChainEvents(who, hooks, n) ==
  IF n = 0 THEN <<>>
  ELSE ChainEvents(who, hooks, n - 1)
       \o <<Event(who, n, hooks[n], "start"), Event(who, n, hooks[n], "end")>>

TransportEvents ==
  <<Event("transport", 0, "fetch", "start"), Event("transport", 0, "fetch", "end")>>

\* m1, ..., mk, transport, a1, ..., an, each step ended before the next starts
HooksAndTransport ==
  ChainEvents("middleware", middlewares, Len(middlewares))
  \o TransportEvents
  \o ChainEvents("afterware", afterwares, Len(afterwares))

IsDecode(e) == e.who = "decode"
NotDecode(e) == e.who # "decode"
IsRaise(e) == e.ev = "raise"

\* no hook raised and the transport did not reject in call c
NoHookFault(c) == \A j \in 1..Len(calls[c].log) : IsRaise(calls[c].log[j]) => IsDecode(calls[c].log[j])

\* every afterware of call c has completed
PastAfterwares(c) ==
  \/ calls[c].pc \in {"response_await", "resolved"}
  \/ calls[c].pc = "rejected" /\ calls[c].result.e[1] = "decode"

\* C1: in a call in which no hook raises and the transport resolves, the
\* steps run in the order m1, ..., mk, transport, a1, ..., an, each exactly
\* once and each ended before the next starts: at every moment what has
\* run so far is a prefix of that order, and once the afterwares are over
\* it is the whole of it
C1_HookOrder ==
  \A c \in CallIds :
    NoHookFault(c) =>
      LET ran == SelectSeq(calls[c].log, NotDecode)
      IN /\ IsPrefix(ran, HooksAndTransport)
         /\ PastAfterwares(c) => ran = HooksAndTransport

\* a call with two middlewares and two afterwares has resolved
C1_Witness ==
  \E c \in CallIds :
    /\ calls[c].pc = "resolved"
    /\ Len(middlewares) = 2
    /\ Len(afterwares) = 2

\* the events of a call that ran without fault up to the start of hook idx of
\* the chain who, which raised
RaisedAt(who, idx) ==
  LET full == HooksAndTransport
      upto == IF who = "middleware" THEN 2 * (idx - 1) + 1
              ELSE 2 * Len(middlewares) + 2 + 2 * (idx - 1) + 1
      kind == IF who = "middleware" THEN middlewares[idx] ELSE afterwares[idx]
  IN SubSeq(full, 1, upto) \o <<Event(who, idx, kind, "raise")>>

\* C2: a hook that raises halts the pipeline and rejects the call with its
\* error. After middleware mi raised: the call is rejected with mi's error,
\* nothing ran after mi, the transport was not called, no afterware ran, no
\* decoding. After afterware aj raised: the call is rejected with aj's
\* error, not resolved, nothing ran after aj, no decoding.
C2_HookFaultHalts ==
  \A c \in CallIds :
    \A j \in 1..Len(calls[c].log) :
      LET e == calls[c].log[j]
      IN (IsRaise(e) /\ e.who \in {"middleware", "afterware"}) =>
           /\ calls[c].pc = "rejected"
           /\ calls[c].result = Error(<<e.who, e.idx>>)
           /\ calls[c].log = RaisedAt(e.who, e.idx)
           /\ e.who = "middleware" => calls[c].sent = NoSent /\ calls[c].seen = <<>>
           /\ e.who = "afterware" => calls[c].sent # NoSent /\ Len(calls[c].seen) = e.idx

\* the first of two middlewares raised in a call on a client with afterwares
C2_Witness ==
  \E c \in CallIds :
    /\ calls[c].result = Error(<<"middleware", 1>>)
    /\ Len(middlewares) = 2
    /\ Len(afterwares) >= 1

\* every hook of the configuration leaves the descriptor alone
HooksInert ==
  /\ \A i \in 1..Len(middlewares) : middlewares[i] = "noop"
  /\ \A i \in 1..Len(afterwares) : afterwares[i] = "noop"

\* the transport has been called in call c
Sent(c) == calls[c].sent # NoSent

\* C3: with no hook that touches the body, the descriptor a get call hands
\* to the transport has no body, and the descriptor a post, put or delete
\* call hands to it carries the serialization of that call's content
C3_BodyByVerb ==
  HooksInert =>
    \A c \in CallIds :
      Sent(c) =>
        IF calls[c].verb = "get"
        THEN calls[c].sent.body = Absent
        ELSE calls[c].sent.body = serializeRequestBody(calls[c].options.content).requestBody

\* the descriptor after the first n middlewares have run on d
RECURSIVE AfterMiddlewares(_, _)
AfterMiddlewares(d, n) ==
  IF n = 0 THEN d ELSE MwEffect(middlewares[n], AfterMiddlewares(d, n - 1))

\* the descriptor after the first n afterwares have run on d
RECURSIVE AfterAfterwares(_, _)
AfterAfterwares(d, n) ==
  IF n = 0 THEN d ELSE AwEffect(afterwares[n], AfterAfterwares(d, n - 1))

\* what call c hands to the transport when it runs alone: the descriptor its
\* verb method built, after the middlewares
AloneDescriptor(c) == AfterMiddlewares(calls[c].built, Len(middlewares))
AloneSent(c) ==
  LET d == AloneDescriptor(c)
  IN [url |-> baseUrl \o calls[c].path, method |-> d.method,
      headers |-> d.headers, body |-> d.body]

\* C4: in every interleaving of two calls, each call hands to the transport
\* the URL and the descriptor it hands to it when run alone, and each of its
\* afterwares is handed the descriptor it is handed when the call runs alone
C4_CallsIndependent ==
  \A c \in CallIds :
    /\ Sent(c) => calls[c].sent = AloneSent(c)
    /\ \A j \in 1..Len(calls[c].seen) :
         calls[c].seen[j] = AfterAfterwares(AloneDescriptor(c), j - 1)

\* C5: with hooks that leave the descriptor alone, the request-overrides
\* object the caller passed to a call has the method, headers and body
\* fields it had when the call was made
C5_OverridesUntouched ==
  HooksInert =>
    \A c \in CallIds :
      (calls[c].pc # "idle" /\ calls[c].requestInit # 0) =>
        heap[calls[c].requestInit] = calls[c].before

\* call d was made with the inputs of call c: the same verb, the same
\* options, and the same request-overrides object or none in both
SameInputs(c, d) ==
  /\ calls[c].verb = calls[d].verb
  /\ calls[c].options = calls[d].options
  /\ calls[c].requestInit = calls[d].requestInit

\* C6: two calls of the same verb method made one after the other with
\* the same inputs hand the same URL, headers and body to the transport
\* (the hooks are functions of the descriptor they are handed)
C6_Idempotent ==
  \A c, d \in CallIds :
    (c \in calls[d].priors /\ Sent(c) /\ Sent(d) /\ SameInputs(c, d)) =>
      /\ calls[c].sent.url = calls[d].sent.url
      /\ calls[c].sent.headers = calls[d].sent.headers
      /\ calls[c].sent.body = calls[d].sent.body

\* C7: whatever options a verb method is given, a call fails before the
\* transport is called only when a middleware raised
C7_ReachesTransport ==
  \A c \in CallIds :
    (calls[c].pc = "rejected" /\ ~Sent(c)) => calls[c].result.e[1] = "middleware"

\* the payloads the claim about body construction names: objects, numbers,
\* booleans, strings and null
NamedPayload(p) == p.t \in {"obj", "num", "bool", "pstr", "null"}

\* C8: for a content map whose first entry is T: p the content type is T and
\* the body is the JSON text of p; for an absent or empty content the
\* content type is application/json and the body is {}
C8_BodyConstruction ==
  (ser.op = "body" /\ ser.done) =>
    IF ser.content.t = "map" /\ Len(ser.content.entries) > 0
    THEN LET T == ser.content.entries[1][1]
             p == ser.content.entries[1][2]
         IN NamedPayload(p) =>
              ser.out = [contentType |-> T, requestBody |-> JSONStringify(p)]
    ELSE ser.out = [contentType |-> "application/json", requestBody |-> "{}"]

\* the headers the caller wrote into the request-overrides object of call c
CallerSupplied(c) ==
  IF calls[c].requestInit = 0 THEN NoHeaders ELSE given[calls[c].requestInit].headers

\* C9: with hooks that leave the descriptor alone, the headers a call hands
\* to the transport are the Content-Type computed from this call's content
\* overlaid by the headers the caller supplied
C9_HeaderMerge ==
  HooksInert =>
    \A c \in CallIds :
      Sent(c) =>
        calls[c].sent.headers =
          Spread([h \in {"Content-Type"} |->
                    serializeRequestBody(calls[c].options.content).contentType],
                 CallerSupplied(c))

\* the first occurrence of pat in s replaced by the text repl as it is
LiteralReplace(s, pat, repl) ==
  LET i == IndexOf(s, pat)
  IN IF i = 0 THEN s
     ELSE SubSeq(s, 1, i - 1) \o repl \o SubSeq(s, i + Len(pat), Len(s))

\* the fold of LiteralReplace over the first n entries
RECURSIVE LiteralFold(_, _, _)
LiteralFold(path, entries, n) ==
  IF n = 0 THEN path
  ELSE LiteralReplace(LiteralFold(path, entries, n - 1),
                      Token(entries[n][1]), entries[n][2].s)

\* C10: for a path map of string values the result is the fold over the
\* entries, in order, that replaces the first occurrence of the token of
\* the key by the value as it is; an absent or empty map gives the template
C10_PathSubstitution ==
  (ser.op = "path" /\ ser.done) =>
    LET entries == EntriesOrEmpty(ser.params)
    IN (\A n \in 1..Len(entries) : entries[n][2].t = "str") =>
         ser.out = LiteralFold(ser.path, entries, Len(entries))

\* k1=v1&...&kn=vn over the first n entries, n >= 1: the pairs joined by "&",
\* each value as its string coercion gives it
RECURSIVE JoinedPairs(_, _)
JoinedPairs(entries, n) ==
  LET pair == entries[n][1] \o <<"=">> \o entries[n][2].s
  IN IF n = 1 THEN pair ELSE JoinedPairs(entries, n - 1) \o <<"&">> \o pair

\* every value of the map has a string coercion
Coercible(entries) == \A n \in 1..Len(entries) : entries[n][2].t \in {"str", "num"}

\* C11: for a query map with entries (k1,v1)..(kn,vn), n >= 1, whose values
\* have a string coercion the result is "?" followed by k1=v1&...&kn=vn,
\* with no "&" at the end and the values as coerced; for an empty or absent
\* map the result is the empty string
C11_QueryConstruction ==
  (ser.op = "query" /\ ser.done) =>
    LET entries == EntriesOrEmpty(ser.query)
    IN Coercible(entries) =>
         ser.out = IF Len(entries) = 0 THEN <<>>
                   ELSE <<"?">> \o JoinedPairs(entries, Len(entries))

\* a map of two entries, one of them a number, has been serialized
C11_Witness ==
  /\ ser.op = "query" /\ ser.done
  /\ Len(EntriesOrEmpty(ser.query)) = 2
  /\ Coercible(ser.query.entries)
  /\ \E n \in 1..2 : ser.query.entries[n][2].t = "num"

IsDecodeStart(e) == e.who = "decode" /\ e.ev = "start"

\* C12: a call that resolved on a response without body has the empty
\* object as data, and on a response with a JSON body has the value that
\* body parses to; the decode step starts at most once in a call, and when
\* it starts the transport and every afterware have completed
C12_Decoding ==
  \A c \in CallIds :
    LET r == calls[c].requestResponse
        decodes == SelectSeq(calls[c].log, IsDecode)
    IN /\ Len(SelectSeq(calls[c].log, IsDecodeStart)) <= 1
       /\ decodes # <<>> => calls[c].log = HooksAndTransport \o decodes
       /\ calls[c].pc = "resolved" =>
            /\ decodes = <<Event("decode", 0, "json", "start"), Event("decode", 0, "json", "end")>>
            /\ calls[c].result.v.data.of = IF r.body THEN r.text ELSE "{}"

\* a call on a client with two afterwares resolved on a response with a body
C12_Witness ==
  \E c \in CallIds :
    /\ calls[c].pc = "resolved"
    /\ calls[c].requestResponse.body
    /\ Len(afterwares) = 2
    /\ calls[c].result.v.data.of = "{\"ok\":1}"

IsTransportStart(e) == e.who = "transport" /\ e.ev = "start"
TransportRaise == Event("transport", 0, "fetch", "raise")

\* the transport rejected in call c
TransportRaised(c) == \E j \in 1..Len(calls[c].log) : calls[c].log[j] = TransportRaise

\* C14: once the transport has rejected in a call, the call is rejected
\* with the transport's error, every middleware ran before it and nothing
\* after it: no afterware, no decode and no second transport call. In
\* every call the transport is called at most once, the call has a result
\* exactly when it has settled, and a settled call keeps its result.
C14_TransportFault ==
  /\ [](\A c \in CallIds :
          /\ Len(SelectSeq(calls[c].log, IsTransportStart)) <= 1
          /\ calls[c].result # NoResult <=> Settled(c)
          /\ TransportRaised(c) =>
               /\ calls[c].pc = "rejected"
               /\ calls[c].result = Error(<<"transport", 0>>)
               /\ calls[c].log =
                    ChainEvents("middleware", middlewares, Len(middlewares))
                    \o <<Event("transport", 0, "fetch", "start"), TransportRaise>>
               /\ calls[c].seen = <<>>)
  /\ [][\A c \in CallIds :
          Settled(c) => /\ calls'[c].pc = calls[c].pc
                        /\ calls'[c].result = calls[c].result]_vars

\* the transport rejected in a call on a client with middlewares and two
\* afterwares
C14_Witness ==
  \E c \in CallIds :
    /\ TransportRaised(c)
    /\ Settled(c)
    /\ Len(middlewares) >= 1
    /\ Len(afterwares) = 2

\* the descriptor as call c delivered it to the transport
Delivered(c) ==
  [method |-> calls[c].sent.method, headers |-> calls[c].sent.headers,
   body |-> calls[c].sent.body]

\* C15: from the call of the transport until the call settles the
\* descriptor of the call has the method, headers and body it was
\* delivered to the transport with, and every afterware is handed the
\* descriptor as it was delivered, whatever an earlier afterware wrote
C15_FrozenDescriptor ==
  \A c \in CallIds :
    Sent(c) =>
      /\ ~Settled(c) => heap[calls[c].init] = Delivered(c)
      /\ \A j \in 1..Len(calls[c].seen) : calls[c].seen[j] = Delivered(c)

\* C16: every middleware of a call is handed the URL of the call and the
\* one descriptor object of the call; middleware mj finds in it what the
\* verb method built with the writes of m1..m(j-1) applied in order, and
\* the transport is handed what the verb method built with the writes of
\* m1..mk applied in order
C16_MiddlewareChain ==
  \A c \in CallIds :
    /\ \A j \in 1..Len(calls[c].handed) :
         /\ calls[c].handed[j].url = baseUrl \o calls[c].path
         /\ calls[c].handed[j].ref = calls[c].init
         /\ calls[c].handed[j].d = AfterMiddlewares(calls[c].built, j - 1)
    /\ Sent(c) => calls[c].sent = AloneSent(c)

\* m1, ..., mk, transport, a1, ..., an over the lists the constructor was given
ConfiguredOrder ==
  ChainEvents("middleware", config.middlewares, Len(config.middlewares))
  \o TransportEvents
  \o ChainEvents("afterware", config.afterwares, Len(config.afterwares))

\* C17: whatever is done to the arrays of the configuration after the
\* construction, a call uses the baseUrl and runs the middlewares and the
\* afterwares the constructor was given: in a call without hook or
\* transport fault what has run is a prefix of that order, and the whole
\* of it once the afterwares are over
C17_ConfigImmutable ==
  \A c \in CallIds :
    /\ calls[c].pc \notin {"idle", "request", "rejected"} =>
         calls[c].requestInfo = config.baseUrl \o calls[c].path
    /\ NoHookFault(c) =>
         LET ran == SelectSeq(calls[c].log, NotDecode)
         IN /\ IsPrefix(ran, ConfiguredOrder)
            /\ PastAfterwares(c) => ran = ConfiguredOrder

\* baseUrl, then the path template after path substitution, then the query
\* string, of the call c
ExpectedUrl(c) ==
  baseUrl
  \o serializePathParams(UrlTemplate, calls[c].options.path)
  \o serializeQueryParams(calls[c].options.query)

\* C18: the URL every middleware of a call is handed, and the URL the
\* transport is handed after them, is the baseUrl followed by the path
\* template after path substitution followed by the query string, with
\* nothing between them, whatever the middlewares did
C18_UrlComposition ==
  \A c \in CallIds :
    (calls[c].handed # <<>> \/ Sent(c)) =>
      LET url == ExpectedUrl(c)
      IN /\ \A j \in 1..Len(calls[c].handed) : calls[c].handed[j].url = url
         /\ Sent(c) => calls[c].sent.url = url

\* the transport was handed h/u/7?q=1 after two middlewares
C18_Witness ==
  \E c \in CallIds :
    /\ Len(calls[c].handed) = 2
    /\ calls[c].sent.url = <<"h", "/", "u", "/", "7", "?", "q", "=", "1">>

IsTransportSettle(e) == e.who = "transport" /\ e.ev \in {"end", "raise"}
IsAfterware(e) == e.who = "afterware"

\* the transport has been called in call c and has not settled
TransportPending(c) == Sent(c) /\ SelectSeq(calls[c].log, IsTransportSettle) = <<>>

\* C19: when every middleware, the transport, every afterware and the
\* decoding settle in the end, a call that was made settles in the end; and
\* for as long as the transport has not settled the call awaits it: it has
\* no result, no afterware has run and nothing has been decoded
C19_Lifetime ==
  /\ \A c \in {1} : (calls[c].pc # "idle") ~> Settled(c)
  /\ [](\A c \in CallIds :
          TransportPending(c) =>
            /\ calls[c].pc = "fetch_await"
            /\ calls[c].result = NoResult
            /\ calls[c].seen = <<>>
            /\ SelectSeq(calls[c].log, IsAfterware) = <<>>
            /\ SelectSeq(calls[c].log, IsDecode) = <<>>)

\* a call that awaited two middlewares, the transport and two afterwares
\* has a result
C19_Witness ==
  \E c \in CallIds :
    /\ Settled(c)
    /\ ~TransportPending(c)
    /\ Len(calls[c].handed) = 2
    /\ Len(calls[c].seen) = 2

\* the response of call c has a body that is an HTML page, not JSON
BodyNotJson(c) ==
  /\ calls[c].requestResponse.body
  /\ calls[c].requestResponse.text = "<html>"

DecodeError == Error(<<"decode", 0>>)

\* C20: a call whose response has a body that is no JSON never resolves to
\* an envelope: once the decode step is over the call is rejected with the
\* decode error. A call is rejected with the decode error only then, and
\* the transport and every afterware have completed before the decode
\* step that raised.
C20_DecodeFault ==
  \A c \in CallIds :
    /\ (BodyNotJson(c) /\ Settled(c) /\ NoHookFault(c)) =>
         /\ calls[c].pc = "rejected"
         /\ calls[c].result = DecodeError
    /\ calls[c].result = DecodeError =>
         /\ BodyNotJson(c)
         /\ calls[c].log =
              HooksAndTransport
              \o <<Event("decode", 0, "json", "start"), Event("decode", 0, "json", "raise")>>
         /\ Len(calls[c].seen) = Len(afterwares)

\* a call on a client with middlewares and two afterwares was rejected with
\* the decode error
C20_Witness ==
  \E c \in CallIds :
    /\ calls[c].result = DecodeError
    /\ Len(middlewares) >= 1
    /\ Len(afterwares) = 2

====
